---- MODULE Spec2Model ----
(***************************************************************************)
(* A model of slib/sdir.py: the directory entries File, Folder,            *)
(* CustomFolder and CustomFile, the duplicate-name resolver and the        *)
(* folder merge, acting on a filesystem.                                   *)
(*                                                                         *)
(* A name is a sequence of one-character strings, a path the sequence of   *)
(* the names of its segments (the empty sequence is "/"), and the          *)
(* filesystem a function from the paths that exist to their nodes.         *)
(***************************************************************************)
EXTENDS Integers, Sequences, FiniteSets, TLC

VARIABLES fs, entry, last, ops

vars == <<fs, entry, last, ops>>

(***************************************************************************)
(* Bounds of the model.                                                    *)
(***************************************************************************)
\* Frames of find_suitable_name the interpreter allows before RuntimeError.
RecursionLimit == 3
\* Calls (constructors, move_to, group) made in one behaviour.
MaxOps == 4
\* Files iglob finds in a folder that an entry is built on.
MaxFiles == 2
\* Names placed in one behaviour of the name-resolver specification.
MaxPlace == 2

(***************************************************************************)
(* Characters and the str methods the code uses.                           *)
(***************************************************************************)
LowerChars == <<"a","b","c","d","e","f","g","h","i","j","k","l","m",
                "n","o","p","q","r","s","t","u","v","w","x","y","z">>
UpperChars == <<"A","B","C","D","E","F","G","H","I","J","K","L","M",
                "N","O","P","Q","R","S","T","U","V","W","X","Y","Z">>
DigitChars == <<"0","1","2","3","4","5","6","7","8","9">>
HexChars == DigitChars \o <<"a","b","c","d","e","f">>
OtherChars == <<" ", "-", "(", ")", ".", "_">>
Alphabet == LowerChars \o UpperChars \o DigitChars \o OtherChars

IndexOf(seq, c) == CHOOSE i \in 1..Len(seq) : seq[i] = c
Occurs(seq, c) == \E i \in 1..Len(seq) : seq[i] = c

islower_char(c) == Occurs(LowerChars, c)
isupper_char(c) == Occurs(UpperChars, c)
iscased(c) == islower_char(c) \/ isupper_char(c)
isdigit(c) == Occurs(DigitChars, c)
isspace(c) == c = " "

upper_char(c) == IF islower_char(c) THEN UpperChars[IndexOf(LowerChars, c)] ELSE c
lower_char(c) == IF isupper_char(c) THEN LowerChars[IndexOf(UpperChars, c)] ELSE c

\* str.upper
upper(s) == [i \in 1..Len(s) |-> upper_char(s[i])]

\* str.isupper: at least one cased character and no lower-case one
isupper(s) ==
    /\ \E i \in 1..Len(s) : iscased(s[i])
    /\ \A i \in 1..Len(s) : ~islower_char(s[i])

\* str.title: a cased character is upper-cased at the start of a word
\* (after an uncased character) and lower-cased inside one
title(s) ==
    [i \in 1..Len(s) |->
        IF i > 1 /\ iscased(s[i-1]) THEN lower_char(s[i]) ELSE upper_char(s[i])]

\* str.startswith
startswith(s, prefix) ==
    /\ Len(prefix) <= Len(s)
    /\ \A i \in 1..Len(prefix) : s[i] = prefix[i]

\* '%s' % count: the decimal digits of a natural number
RECURSIVE str(_)
str(n) ==
    IF n < 10 THEN <<DigitChars[n + 1]>>
    ELSE str(n \div 10) \o <<DigitChars[(n % 10) + 1]>>

(***************************************************************************)
(* os.path                                                                 *)
(***************************************************************************)
basename(path) == IF path = <<>> THEN <<>> ELSE path[Len(path)]
dirname(path) == IF path = <<>> THEN <<>> ELSE SubSeq(path, 1, Len(path) - 1)
\* os.path.join of a path and a relative path (a sequence of names)
join(path, rel) == path \o rel

\* os.path.splitext of a name: the extension starts at the last dot, unless
\* only dots precede it
splitext(name) ==
    LET dots == {i \in 1..Len(name) : name[i] = "."}
    IN IF dots = {} THEN <<name, <<>> >>
       ELSE LET dotIndex == CHOOSE i \in dots : \A j \in dots : j <= i
            IN IF \E k \in 1..(dotIndex - 1) : name[k] # "."
               THEN <<SubSeq(name, 1, dotIndex - 1), SubSeq(name, dotIndex, Len(name))>>
               ELSE <<name, <<>> >>

IsPrefix(p, q) == Len(p) <= Len(q) /\ SubSeq(q, 1, Len(p)) = p

exists(f, p) == p \in DOMAIN f
isdir(f, p) == p \in DOMAIN f /\ f[p].kind = "dir"
isfile(f, p) == p \in DOMAIN f /\ f[p].kind = "file"

DirNode == [kind |-> "dir", id |-> 0]
FileNode(i) == [kind |-> "file", id |-> i]

\* the entries directly inside directory p
listdir(f, p) == {q \in DOMAIN f : Len(q) = Len(p) + 1 /\ IsPrefix(p, q)}

(***************************************************************************)
(* File.filename_pattern and re.sub                                        *)
(***************************************************************************)
\* the character class [\s\(\d\)]
InClass(c) == isspace(c) \/ isdigit(c) \/ c = "(" \/ c = ")"

RECURSIVE ClassRun(_, _)
ClassRun(s, j) ==
    IF j <= Len(s) /\ InClass(s[j]) THEN 1 + ClassRun(s, j + 1) ELSE 0

\* length of the match of r'\-\sdup[\s\(\d\)]+' starting at position i, 0 if none
filename_pattern(s, i) ==
    IF /\ i + 5 <= Len(s)
       /\ s[i] = "-" /\ isspace(s[i+1])
       /\ s[i+2] = "d" /\ s[i+3] = "u" /\ s[i+4] = "p"
       /\ InClass(s[i+5])
    THEN 5 + ClassRun(s, i + 5)
    ELSE 0

HasPattern(s) == \E i \in 1..Len(s) : filename_pattern(s, i) > 0

\* re.sub(filename_pattern, repl, s): every non-overlapping match replaced
RECURSIVE re_sub_from(_, _, _)
re_sub_from(repl, s, i) ==
    IF i > Len(s) THEN <<>>
    ELSE LET m == filename_pattern(s, i)
         IN IF m > 0 THEN repl \o re_sub_from(repl, s, i + m)
            ELSE <<s[i]>> \o re_sub_from(repl, s, i + 1)

re_sub(repl, s) == re_sub_from(repl, s, 1)

\* hashlib.md5(...).hexdigest(): a name of hex digits only, here an injective
\* encoding (two hex digits per character), as the digest is collision-free
\* in practice
md5(s) ==
    LET code(c) == IndexOf(Alphabet, c)
    IN [i \in 1..(2 * Len(s)) |->
          IF i % 2 = 1 THEN HexChars[(code(s[(i + 1) \div 2]) \div 16) + 1]
          ELSE HexChars[(code(s[i \div 2]) % 16) + 1]]

DupPrefix == <<" ", "-", " ", "d", "u", "p", " ", "(">>
SubPrefix == <<"-", " ", "d", "u", "p", " ", "(">>

\* next_name without the substitution: the suffix is appended every time
next_name_appending(filename, count) ==
    splitext(filename)[1] \o DupPrefix \o str(count) \o <<")">> \o splitext(filename)[2]

\* the name tried after `filename` collided on attempt `count`
next_name(filename, count) ==
    LET split_data == splitext(filename)
    IN IF count = 1
       THEN split_data[1] \o DupPrefix \o str(count) \o <<")">> \o split_data[2]
       ELSE re_sub(SubPrefix \o str(count) \o <<")">>, filename)

\* File.find_suitable_name; the call of frame count+1 fails with RuntimeError
\* once the interpreter's limit is exceeded, and the frame that made it
\* answers with the digest of its own filename
RECURSIVE find_suitable_name(_, _, _)
find_suitable_name(f, file_path, count) ==
    LET filename == basename(file_path)
    IN IF exists(f, file_path)
       THEN LET new_file_path ==
                    join(dirname(file_path), <<next_name(filename, count)>>)
            IN IF count + 1 > RecursionLimit
               THEN md5(filename)
               ELSE find_suitable_name(f, new_file_path, count + 1)
       ELSE filename

\* whether find_suitable_name answers with the digest (the except branch)
RECURSIVE hit_recursion_limit(_, _, _)
hit_recursion_limit(f, file_path, count) ==
    /\ exists(f, file_path)
    /\ \/ count + 1 > RecursionLimit
       \/ hit_recursion_limit(
              f, join(dirname(file_path), <<next_name(basename(file_path), count)>>),
              count + 1)

(***************************************************************************)
(* The classification table (data.filegroups) and the marker's name        *)
(* (data.settings), which the module imports.                              *)
(***************************************************************************)
CatDoc == <<"d","o","c">>
CatImg == <<"I","M","G">>
typeGroups == (CatDoc :> {<<"T">>}) @@ (CatImg :> {<<"J">>})
typeList == UNION {typeGroups[key] : key \in DOMAIN typeGroups}
SORTER_IGNORE_FILENAME == <<".","s","i","g">>
FOLDERS == <<"F","O","L","D","E","R","S">>
UNDEFINED == <<"U","N","D","E","F","I","N","E","D">>
undefined == <<"u","n","d","e","f","i","n","e","d">>

(***************************************************************************)
(* Filesystem primitives.  Each answers with the filesystem it leaves and  *)
(* the exception it raises ("none" when it returns).                       *)
(***************************************************************************)
Ok(f) == [fs |-> f, raised |-> "none"]
Raise(f, e) == [fs |-> f, raised |-> e]

Put(f, p, node) == [q \in (DOMAIN f) \cup {p} |-> IF q = p THEN node ELSE f[q]]
Remove(f, p) == [q \in (DOMAIN f) \ {p} |-> f[q]]

\* os.mkdir
mkdir(f, p) ==
    IF exists(f, p) THEN Raise(f, "FileExistsError")
    ELSE IF ~isdir(f, dirname(p)) THEN Raise(f, "FileNotFoundError")
    ELSE Ok(Put(f, p, DirNode))

\* os.makedirs(p, exist_ok=True)
makedirs(f, p) ==
    LET prefixes == {SubSeq(p, 1, n) : n \in 0..Len(p)}
    IN IF \E q \in prefixes : isfile(f, q) THEN Raise(f, "FileExistsError")
       ELSE Ok([q \in (DOMAIN f) \cup prefixes |->
                   IF q \in DOMAIN f THEN f[q] ELSE DirNode])

\* os.rmdir
rmdir(f, p) ==
    IF isdir(f, p) /\ listdir(f, p) = {} THEN Ok(Remove(f, p))
    ELSE Raise(f, "OSError")

\* os.rename of an existing src to dst: the whole subtree goes along, a file
\* at dst is replaced
rename(f, src, dst) ==
    LET moved == {q \in DOMAIN f : IsPrefix(src, q)}
        kept == {q \in DOMAIN f : ~IsPrefix(src, q) /\ q # dst}
        target(q) == dst \o SubSeq(q, Len(src) + 1, Len(q))
        origin(p) == CHOOSE q \in moved : target(q) = p
    IN [p \in kept \cup {target(q) : q \in moved} |->
           IF p \in kept THEN f[p] ELSE f[origin(p)]]

\* shutil.move(src, dst).  perm is what the operating system does to the move
\* of a regular file: "ok", "denied" (rename and copy both refused) or "copied"
\* (rename refused, the copy made, the unlink of src refused)
shutil_move(f, src, dst, perm) ==
    LET into == isdir(f, dst) /\ src # dst
        real_dst == IF into THEN join(dst, <<basename(src)>>) ELSE dst
    IN IF ~exists(f, src) THEN Raise(f, "FileNotFoundError")
       ELSE IF isdir(f, dst) /\ src = dst THEN Ok(f)
       ELSE IF into /\ exists(f, real_dst) THEN Raise(f, "Error")
       ELSE IF ~isdir(f, dirname(real_dst)) THEN Raise(f, "FileNotFoundError")
       ELSE IF isdir(f, src) /\ IsPrefix(src, real_dst) THEN Raise(f, "Error")
       ELSE IF isdir(f, src) /\ exists(f, real_dst) THEN Raise(f, "FileExistsError")
       ELSE IF isfile(f, src) /\ perm = "denied" THEN Raise(f, "PermissionError")
       ELSE IF isfile(f, src) /\ perm = "copied"
            THEN Raise(Put(f, real_dst, f[src]), "PermissionError")
       ELSE Ok(rename(f, src, real_dst))

\* iglob(os.path.join(src, '*')) filtered by os.path.isfile: '*' matches no
\* name that starts with a dot
glob_files(f, src) ==
    {q \in listdir(f, src) : isfile(f, q) /\ ~startswith(basename(q), <<".">>)}

\* has_signore_file
has_signore_file(f, path) == isfile(f, join(path, <<SORTER_IGNORE_FILENAME>>))

(***************************************************************************)
(* Directory entries.  calls is history: one record per move_to or group   *)
(* made through the handle.                                                *)
(***************************************************************************)
NoEntry ==
    [cls |-> "none", path |-> <<>>, name |-> <<>>, parent |-> <<>>,
     extension |-> <<>>, category |-> <<>>, exists |-> FALSE,
     for_sorter |-> FALSE, group_folder |-> <<>>, calls |-> <<>>]

\* File._get_extension
_get_extension(name) ==
    LET result == Tail(splitext(name)[2])
    IN IF splitext(name)[2] # <<>> /\ result # <<>> THEN result ELSE undefined

\* File.get_category
get_category(extension) ==
    LET file_extension == upper(extension)
        keys == {key \in DOMAIN typeGroups : file_extension \in typeGroups[key]}
    IN IF extension # <<>> /\ keys # {} THEN CHOOSE key \in keys : TRUE
       ELSE UNDEFINED

\* is_sorter_folder comparing the upper-cased name, whatever its case
is_sorter_folder_any_case(f, path) ==
    /\ isdir(f, path)
    /\ \/ upper(basename(path)) \in typeList \cup {FOLDERS}
       \/ basename(path) \in DOMAIN typeGroups

\* Folder.is_sorter_folder
is_sorter_folder(f, path) ==
    LET dirname_ == basename(path)
    IN /\ isdir(f, path)
       /\ IF isupper(dirname_)
          THEN dirname_ \in typeList \/ dirname_ = FOLDERS
          ELSE dirname_ \in DOMAIN typeGroups

\* Directory._set_path with the overrides of File, CustomFile and Folder: every
\* derived attribute is recomputed from the new path and the filesystem
_set_path(f, self, value) ==
    LET name == basename(value)
        extension == _get_extension(name)
        isFile == self.cls \in {"File", "CustomFile"}
    IN [self EXCEPT
          !.path = value,
          !.name = name,
          !.parent = dirname(value),
          !.extension = IF isFile THEN extension ELSE <<>>,
          !.category = IF self.cls = "File" THEN get_category(extension)
                       ELSE IF self.cls = "CustomFile" THEN self.group_folder
                       ELSE <<>>,
          !.exists = IF isFile THEN isfile(f, value) ELSE isdir(f, value),
          !.for_sorter = IF isFile THEN FALSE ELSE is_sorter_folder(f, value)]

\* the constructors
File(f, path) == _set_path(f, [NoEntry EXCEPT !.cls = "File"], path)
Folder(f, path) == _set_path(f, [NoEntry EXCEPT !.cls = "Folder"], path)
CustomFolder(f, path, group_folder_name) ==
    _set_path(f, [NoEntry EXCEPT !.cls = "CustomFolder",
                                 !.group_folder = title(group_folder_name)], path)
CustomFile(f, path, group_folder_name) ==
    _set_path(f, [NoEntry EXCEPT !.cls = "CustomFile",
                                 !.group_folder = title(group_folder_name)], path)

(***************************************************************************)
(* File._set_extension_destination and File.move_to / CustomFile.move_to   *)
(***************************************************************************)
\* if not os.path.isdir(p): os.mkdir(p), after the steps that led to r
ensure_dir(r, p) ==
    IF r.raised # "none" THEN r
    ELSE IF ~isdir(r.fs, p) THEN mkdir(r.fs, p)
    ELSE r

\* the tail of _set_extension_destination: the name that suits, in the
\* extension folder made by the steps that led to m
suitable_destination(m, new_dst) ==
    [fs |-> m.fs, raised |-> m.raised,
     final_dst |-> join(dirname(new_dst), <<find_suitable_name(m.fs, new_dst, 1)>>),
     fallback |-> hit_recursion_limit(m.fs, new_dst, 1)]

\* _set_extension_destination deaf to group: no category directory
_set_extension_destination_flat(f, self, root_path, group) ==
    suitable_destination(
        ensure_dir(Ok(f), join(root_path, <<upper(self.extension)>>)),
        join(root_path, <<upper(self.extension), self.name>>))

_set_extension_destination(f, self, root_path, group) ==
    LET group_dst == join(root_path, <<self.category>>)
        extension_dst ==
            IF group THEN join(group_dst, <<upper(self.extension)>>)
            ELSE join(root_path, <<upper(self.extension)>>)
    IN suitable_destination(
           ensure_dir(IF group THEN ensure_dir(Ok(f), group_dst) ELSE Ok(f),
                      extension_dst),
           join(extension_dst, <<self.name>>))

\* A filesystem move that move_to attempted: whether an entry was at the final
\* destination right before it, and how it ended
Attempt(self, d, how) ==
    [src |-> self.path, dst |-> d.final_dst, occupied |-> exists(d.fs, d.final_dst),
     outcome |-> how, fallback |-> d.fallback]

\* move_to without the except clause: PermissionError reaches the caller
after_shutil_move_uncaught(self, d, r, perm) ==
    [fs |-> r.fs,
     self |-> IF r.raised = "none" THEN _set_path(r.fs, self, d.final_dst) ELSE self,
     raised |-> r.raised,
     moves |-> <<Attempt(self, d,
                         IF r.raised = "none" THEN "moved"
                         ELSE IF r.raised = "PermissionError" THEN perm
                         ELSE r.raised)>>]

\* the try / except PermissionError / else of move_to, r being what
\* shutil.move did
after_shutil_move(self, d, r, perm) ==
    [fs |-> r.fs,
     self |-> IF r.raised = "none" THEN _set_path(r.fs, self, d.final_dst) ELSE self,
     raised |-> IF r.raised = "PermissionError" THEN "none" ELSE r.raised,
     moves |-> <<Attempt(self, d,
                         IF r.raised = "none" THEN "moved"
                         ELSE IF r.raised = "PermissionError" THEN perm
                         ELSE r.raised)>>]

\* move_to without the comparison of the two directories
move_to_destination_always(self, d, perm) ==
    IF d.raised # "none"
    THEN [fs |-> d.fs, self |-> self, raised |-> d.raised, moves |-> <<>>]
    ELSE after_shutil_move(self, d, shutil_move(d.fs, self.path, d.final_dst, perm),
                           perm)

\* the body of move_to once the final destination d is known
move_to_destination(self, d, perm) ==
    IF d.raised # "none"
    THEN [fs |-> d.fs, self |-> self, raised |-> d.raised, moves |-> <<>>]
    ELSE IF dirname(self.path) # dirname(d.final_dst)
    THEN after_shutil_move(self, d, shutil_move(d.fs, self.path, d.final_dst, perm),
                           perm)
    ELSE [fs |-> d.fs, self |-> self, raised |-> "none", moves |-> <<>>]

\* move_to of File (group as given) and of CustomFile (always group=True)
move_to(f, self, dst_root_path, group, perm) ==
    move_to_destination(
        self,
        _set_extension_destination(
            f, self, dst_root_path, IF self.cls = "CustomFile" THEN TRUE ELSE group),
        perm)

(***************************************************************************)
(* Folder and CustomFolder                                                 *)
(***************************************************************************)
\* Folder._get_category_folder, overridden by CustomFolder: a relative path.
\* [...][0] on an empty list raises IndexError.
_get_category_folder(self) ==
    IF self.cls = "CustomFolder" THEN [rel |-> <<self.group_folder>>, raised |-> "none"]
    ELSE IF self.for_sorter /\ upper(self.name) \in typeList
    THEN LET category == {key \in DOMAIN typeGroups : self.name \in typeGroups[key]}
         IN IF category = {} THEN [rel |-> <<>>, raised |-> "IndexError"]
            ELSE [rel |-> <<CHOOSE key \in category : TRUE, upper(self.name)>>,
                  raised |-> "none"]
    ELSE IF self.for_sorter /\ self.name \in DOMAIN typeGroups
    THEN [rel |-> <<basename(self.parent)>>, raised |-> "none"]
    ELSE [rel |-> <<FOLDERS>>, raised |-> "none"]

\* the entry _move_contents builds for one file
file_instance(f, self, path) ==
    IF self.cls = "CustomFolder" THEN CustomFile(f, path, self.group_folder)
    ELSE File(f, path)

\* the moves of the files after the first, added to what the first's did
then_moves(r, rest) ==
    [fs |-> rest.fs, raised |-> rest.raised, moves |-> r.moves \o rest.moves]

\* Folder._move_contents and CustomFolder._move_contents: the immediate
\* regular files of src, in the order iglob gave them, are moved each through
\* a File (CustomFile) of its own; perms tells what the operating system does
\* to each file's move.  An exception ends the loop.
RECURSIVE _move_contents(_, _, _, _, _, _)
RECURSIVE move_rest(_, _, _, _, _, _)
move_rest(r, self, files, root_path, group_content, perms) ==
    IF r.raised # "none" THEN [fs |-> r.fs, raised |-> r.raised, moves |-> r.moves]
    ELSE then_moves(r, _move_contents(r.fs, self, files, root_path,
                                      group_content, perms))

_move_contents(f, self, files, root_path, group_content, perms) ==
    IF files = <<>> THEN [fs |-> f, raised |-> "none", moves |-> <<>>]
    ELSE move_rest(move_to(f, file_instance(f, self, Head(files)), root_path,
                           group_content, perms[Head(files)]),
                   self, Tail(files), root_path, group_content, perms)

\* Folder.recreate(path)
recreate(f, path) == makedirs(f, path)

\* what Folder._move_to and CustomFolder._move_to answer with
MoveResult(f, self, raised, moves, branch, removed) ==
    [fs |-> f, self |-> self, raised |-> raised, moves |-> moves,
     branch |-> branch, removed |-> removed]

\* the end of _move_to: self.path = dst, unless an exception went through
set_path_to(r, self, dst, moves, branch, removed) ==
    IF r.raised # "none" THEN MoveResult(r.fs, self, r.raised, moves, branch, FALSE)
    ELSE MoveResult(r.fs, _set_path(r.fs, self, dst), "none", moves, branch, removed)

\* try: os.rmdir(src) except OSError: print(...)
\* a removal of the source with all that is in it
try_rmtree(f, src) == [q \in {x \in DOMAIN f : ~IsPrefix(src, x)} |-> f[q]]

try_rmdir(f, src) == rmdir(f, src).fs

\* the branch of Folder._move_to for a dst that is a directory, c being what
\* _move_contents did
Folder_merge(self, dst, c) ==
    set_path_to(IF c.raised # "none" THEN c ELSE Ok(try_rmdir(c.fs, self.path)),
                self, dst, c.moves, "merge",
                ~exists(try_rmdir(c.fs, self.path), self.path))

\* the branch of Folder._move_to for a dst that is no directory:
\* self.recreate(dst), then shutil.move(src, dst)
Folder_rename(self, dst, rc) ==
    set_path_to(IF rc.raised # "none" THEN rc
                ELSE shutil_move(rc.fs, self.path, dst, "ok"),
                self, dst, <<>>, "rename", FALSE)

\* Folder._move_to(dst, root_path, group_content) with src = self.path
Folder_move_to(f, self, dst, root_path, group_content, files, perms) ==
    IF isdir(f, dst)
    THEN Folder_merge(self, dst,
             _move_contents(f, self, files, root_path, group_content, perms))
    ELSE Folder_rename(self, dst, recreate(f, dst))

\* a merge that writes no marker
write_signore_never(f, dst) == Ok(f)

\* if not has_signore_file(dst): open(sorter_ignore_filepath, 'w+').close()
write_signore(f, dst) ==
    IF has_signore_file(f, dst) THEN Ok(f)
    ELSE IF isdir(f, join(dst, <<SORTER_IGNORE_FILENAME>>))
    THEN Raise(f, "IsADirectoryError")
    ELSE Ok(Put(f, join(dst, <<SORTER_IGNORE_FILENAME>>), FileNode(0)))

\* the rest of the merge once the marker step m is done
CustomFolder_marked(self, dst, c, m) ==
    set_path_to(IF m.raised # "none" THEN m ELSE Ok(try_rmdir(m.fs, self.path)),
                self, dst, c.moves, "merge",
                m.raised = "none" /\ ~exists(try_rmdir(m.fs, self.path), self.path))

\* the branch of CustomFolder._move_to for a dst that is a directory
CustomFolder_merge(self, dst, c) ==
    IF c.raised # "none" THEN set_path_to(c, self, dst, c.moves, "merge", FALSE)
    ELSE CustomFolder_marked(self, dst, c, write_signore(c.fs, dst))

\* CustomFolder._move_to(dst, root_path, group_content) with src = self.path
CustomFolder_move_to(f, self, dst, root_path, group_content, files, perms) ==
    IF isdir(f, dst)
    THEN CustomFolder_merge(self, dst,
             _move_contents(f, self, files, root_path, group_content, perms))
    ELSE set_path_to(shutil_move(f, self.path, dst, "ok"), self, dst, <<>>,
                     "rename", FALSE)

\* the destination group() computes
group_dst(self, root_path) == join(root_path, _get_category_folder(self).rel)

\* Folder.group(root_path), inherited by CustomFolder
group(f, self, root_path, files, perms) ==
    IF _get_category_folder(self).raised # "none"
    THEN MoveResult(f, self, _get_category_folder(self).raised, <<>>, "none", FALSE)
    ELSE IF self.cls = "CustomFolder"
    THEN CustomFolder_move_to(f, self, group_dst(self, root_path), root_path, TRUE,
                              files, perms)
    ELSE Folder_move_to(f, self, group_dst(self, root_path), root_path, TRUE,
                        files, perms)

(***************************************************************************)
(* The filesystems a behaviour starts from, and the inputs.                *)
(***************************************************************************)
R == <<"r">>
dA == <<"a">>
dB == <<"b">>
dS == <<"s">>
dX == <<"x">>
nAT == <<"a", ".", "t">>
nBJ == <<"b", ".", "j">>
nCT == <<"c", ".", "t">>
Grp == <<"G", "r", "p">>

\* a filesystem from its directories and its files (pairs of path and content)
MkFs(dirs, files) ==
    [p \in dirs \cup {x[1] : x \in files} |->
        IF p \in dirs THEN DirNode
        ELSE FileNode((CHOOSE x \in files : x[1] = p)[2])]

\* a folder with two files, a subfolder holding a namesake and a marker
FsPlain ==
    MkFs({<<>>, <<R>>, <<R, dA>>, <<R, dA, dS>>},
         {<< <<R, dA, nAT>>, 1 >>, << <<R, dA, nBJ>>, 2 >>,
          << <<R, dA, dS, nAT>>, 3 >>,
          << <<R, dA, dS, SORTER_IGNORE_FILENAME>>, 0 >>})

\* FOLDERS exists and holds a file; the folder to group holds two
FsMerge ==
    MkFs({<<>>, <<R>>, <<R, FOLDERS>>, <<R, dA>>},
         {<< <<R, FOLDERS, nCT>>, 1 >>, << <<R, dA, nAT>>, 2 >>,
          << <<R, dA, nBJ>>, 3 >>})

\* the name find_suitable_name tries k-th after `name`
RECURSIVE nth_name(_, _)
nth_name(name, k) == IF k = 0 THEN name ELSE next_name(nth_name(name, k - 1), k)

\* the classified directory already holds a.t and as many duplicates of it as
\* find_suitable_name tries, and two folders hold a namesake each
FsDups ==
    MkFs({<<>>, <<R>>, <<R, CatDoc>>, <<R, CatDoc, <<"T">> >>, <<R, dA>>, <<R, dB>>},
         {<< <<R, CatDoc, <<"T">>, nth_name(nAT, k)>>, k + 1 >> :
             k \in 0..(RecursionLimit - 1)}
         \cup {<< <<R, dA, nAT>>, RecursionLimit + 1 >>,
               << <<R, dB, nAT>>, RecursionLimit + 2 >>})

\* a custom group's folder exists, with an extension folder inside
FsCustom ==
    MkFs({<<>>, <<R>>, <<R, Grp>>, <<R, Grp, <<"T">> >>, <<R, dA>>, <<R, dB>>},
         {<< <<R, Grp, <<"T">>, nAT>>, 1 >>, << <<R, dA, nAT>>, 2 >>,
          << <<R, dB, nBJ>>, 3 >>})

\* folders named like an extension and like a category
FsSorter ==
    MkFs({<<>>, <<R>>, <<R, dX>>, <<R, dX, CatDoc>>, <<R, dX, <<"T">> >>,
          <<R, <<"t">> >>, <<R, CatImg>>},
         {<< <<R, dX, CatDoc, nAT>>, 1 >>, << <<R, dX, <<"T">>, nCT>>, 2 >>})

InitialFs == {FsPlain, FsMerge, FsDups, FsCustom, FsSorter}

\* destination roots: one that exists and one that does not
Root == <<R>>
MissingRoot == <<R, <<"o">> >>
\* what the operating system does to the move of a regular file
PermOutcomes == {"ok", "denied", "copied"}
\* the calls of move_to: root, group flag and what the operating system does
\* (nothing is moved under the missing root, whatever it would do)
MoveToInputs ==
    {<<Root, g, perm>> : g \in BOOLEAN, perm \in PermOutcomes}
        \cup {<<MissingRoot, g, "ok">> : g \in BOOLEAN}
\* during a merge the operating system refuses the move of at most one file
PermChoices(S) ==
    {[p \in S |-> "ok"]}
        \cup {[p \in S |-> IF p = q THEN o ELSE "ok"] : q \in S, o \in {"denied", "copied"}}
\* the group name custom entries are built with
GroupName == <<"g", "r", "p">>
\* paths a Folder is built on besides the directories: a regular file in
\* some filesystems, a missing path in others
ProbePaths == {<<R, <<"T">> >>, <<R, dA, nAT>>}

\* the directories strictly below the root that hold at most MaxFiles files
\* for iglob to find
Folders(f) ==
    {p \in DOMAIN f :
        isdir(f, p) /\ Len(p) >= 2 /\ Cardinality(glob_files(f, p)) <= MaxFiles}
Files(f) == {p \in DOMAIN f : isfile(f, p)}

\* the orders iglob may yield a set of files in
Orders(S) ==
    {o \in [1..Cardinality(S) -> S] : \A i, j \in 1..Cardinality(S) : i # j => o[i] # o[j]}

(***************************************************************************)
(* The state machine.  last records the last operation: the filesystem and *)
(* the entry before it, its inputs, the moves it attempted and how it      *)
(* ended.                                                                  *)
(***************************************************************************)
NoLast ==
    [op |-> "none", root |-> <<>>, group |-> FALSE, before |-> <<>>,
     self0 |-> NoEntry, moves |-> <<>>, raised |-> "none", branch |-> "none",
     dst |-> <<>>, removed |-> FALSE, files |-> <<>>,
     candidate |-> <<>>, result |-> <<>>]

Moved(moves) == {i \in 1..Len(moves) : moves[i].outcome = "moved"}

CallRecord(op, root, g, r) ==
    [op |-> op, root |-> root, group |-> g, moved |-> Cardinality(Moved(r.moves)),
     fallback |-> \E i \in Moved(r.moves) : r.moves[i].fallback,
     raised |-> r.raised, existed |-> entry.exists]

Init ==
    /\ fs \in InitialFs
    /\ entry = NoEntry
    /\ last = NoLast
    /\ ops = 0

\* File(path)
NewFile(p) ==
    /\ ops < MaxOps
    /\ entry' = File(fs, p)
    /\ last' = NoLast
    /\ ops' = ops + 1
    /\ UNCHANGED fs

\* Folder(path)
NewFolder(p) ==
    /\ ops < MaxOps
    /\ entry' = Folder(fs, p)
    /\ last' = NoLast
    /\ ops' = ops + 1
    /\ UNCHANGED fs

\* CustomFolder(path, group_folder_name)
NewCustomFolder(p) ==
    /\ ops < MaxOps
    /\ entry' = CustomFolder(fs, p, GroupName)
    /\ last' = NoLast
    /\ ops' = ops + 1
    /\ UNCHANGED fs

\* CustomFile(path, group_folder_name)
NewCustomFile(p) ==
    /\ ops < MaxOps
    /\ entry' = CustomFile(fs, p, GroupName)
    /\ last' = NoLast
    /\ ops' = ops + 1
    /\ UNCHANGED fs

\* the state an operation leaves: what it did to the filesystem and to the
\* entry, and the record of it
Done(op, root, g, files, dst, r) ==
    /\ fs' = r.fs
    /\ entry' = [r.self EXCEPT !.calls = Append(@, CallRecord(op, root, g, r))]
    /\ last' = [NoLast EXCEPT
                   !.op = op, !.root = root, !.group = g, !.before = fs,
                   !.self0 = entry, !.moves = r.moves, !.raised = r.raised,
                   !.branch = IF op = "group" THEN r.branch ELSE "none",
                   !.removed = IF op = "group" THEN r.removed ELSE FALSE,
                   !.dst = dst, !.files = files]
    /\ ops' = ops + 1

\* entry.move_to(root, group)
FileMoveTo(root, g, perm) ==
    /\ ops < MaxOps
    /\ entry.cls \in {"File", "CustomFile"}
    /\ entry.cls = "CustomFile" => g   \* the flag is ignored: group=True is passed on
    /\ Done("move_to", root, g, <<>>, <<>>, move_to(fs, entry, root, g, perm))

\* entry.group(root)
FolderGroup(root, files, perms) ==
    /\ ops < MaxOps
    /\ entry.cls \in {"Folder", "CustomFolder"}
    /\ Done("group", root, TRUE, files, group_dst(entry, root),
            group(fs, entry, root, files, perms))

Next ==
    \/ \E p \in Files(fs) : NewFile(p)
    \/ \E p \in Folders(fs) \cup ProbePaths : NewFolder(p)
    \/ \E p \in Folders(fs) : NewCustomFolder(p)
    \/ \E p \in Files(fs) : NewCustomFile(p)
    \/ \E in \in MoveToInputs : FileMoveTo(in[1], in[2], in[3])
    \/ \E files \in Orders(glob_files(fs, entry.path)) :
          \E perms \in PermChoices(glob_files(fs, entry.path)) :
             FolderGroup(Root, files, perms)

Spec == Init /\ [][Next]_vars

(***************************************************************************)
(* The name resolver on its own: a directory holding some of the names of  *)
(* NameUniverse, find_suitable_name asked about a candidate, and the name  *)
(* it answered put in the directory (as the move that follows does).       *)
(***************************************************************************)
nA == <<"a">>
nAT3 == next_name(next_name(next_name(nAT, 1), 2), 3)

NameUniverse ==
    {nAT, next_name(nAT, 1), next_name(next_name(nAT, 1), 2), nAT3,
     next_name(nAT3, 1), nA, next_name(nA, 1)}

Candidates == {nAT, nAT3, nA}

InitName ==
    /\ fs \in {MkFs({<<>>, <<R>>}, {<< <<R, n>>, 1 >> : n \in S}) : S \in SUBSET NameUniverse}
    /\ entry = NoEntry
    /\ last = NoLast
    /\ ops = 0

\* find_suitable_name(candidate_path)
NameResolve(c) ==
    /\ last' = [NoLast EXCEPT
                   !.op = "find_suitable_name", !.before = fs, !.candidate = c,
                   !.result = find_suitable_name(fs, <<R, c>>, 1)]
    /\ UNCHANGED <<fs, entry, ops>>

\* a file lands under the name last answered
NamePlace ==
    /\ ops < MaxPlace
    /\ last.op = "find_suitable_name"
    /\ fs' = Put(fs, <<R, last.result>>, FileNode(1))
    /\ last' = NoLast
    /\ ops' = ops + 1
    /\ UNCHANGED entry

NextName ==
    \/ \E c \in Candidates : NameResolve(c)
    \/ NamePlace

SpecName == InitName /\ [][NextName]_vars

(***************************************************************************)
(* Properties                                                              *)
(***************************************************************************)
\* the k-th duplicate name of a candidate: ' - dup (k)' before the extension
DupName(c, k) ==
    splitext(c)[1] \o <<" ", "-", " ", "d", "u", "p", " ", "(">> \o str(k)
        \o <<")">> \o splitext(c)[2]

\* root/category/EXTENSION_UPPER (group) or root/EXTENSION_UPPER of an entry
ClassifiedDir(self, root, g) ==
    IF g THEN join(root, <<self.category, upper(self.extension)>>)
    ELSE join(root, <<upper(self.extension)>>)

\* the regular files directly inside a directory, markers aside
UserFilesIn(f, d) ==
    {<<basename(q), f[q].id>> :
        q \in {x \in listdir(f, d) :
                  isfile(f, x) /\ basename(x) # SORTER_IGNORE_FILENAME}}

Attempts == {last.moves[i] : i \in 1..Len(last.moves)}
Refused == {m \in Attempts : m.outcome \in {"denied", "copied"}}
MovedFrom == {m.src : m \in {a \in Attempts : a.outcome = "moved"}}

IsMoveTo == last.op = "move_to"
IsGroup == last.op = "group"
IsMerge == IsGroup /\ last.branch = "merge" /\ last.raised = "none"
IsRename == IsGroup /\ last.branch = "rename" /\ last.raised = "none"
Src == last.self0.path

\* the last two calls made through the entry, when they had the same arguments
TwiceInARow(cls, op) ==
    /\ entry.cls = cls
    /\ Len(entry.calls) >= 2
    /\ LET n == Len(entry.calls)
       IN /\ entry.calls[n].op = op /\ entry.calls[n-1].op = op
          /\ entry.calls[n].root = entry.calls[n-1].root
          /\ entry.calls[n].group = entry.calls[n-1].group
First == entry.calls[Len(entry.calls) - 1]
Second == entry.calls[Len(entry.calls)]

\* the contents of the regular files, markers aside
Contents(f) == {f[p].id : p \in {q \in Files(f) : basename(q) # SORTER_IGNORE_FILENAME}}

\* C1 (as claimed): no user file is ever lost or overwritten: after move_to or
\* group every regular file that existed before still exists.
C1_NoFileLost ==
    ((IsMoveTo \/ IsGroup) /\ Refused = {}) => Contents(last.before) \subseteq Contents(fs)

\* C2 (as claimed): after a merge into a dst that was a directory, (a) every
\* subfolder dst contained (the source's own tree aside) holds the files it held, (b) the subfolders of the
\* source are in place with their files, (c) the source is removed only if
\* nothing remained in it, and stays with what remained otherwise.
SubfoldersOf(f, d) == {q \in DOMAIN f : isdir(f, q) /\ IsPrefix(d, q) /\ q # d}
SourceKept ==
    /\ \A d \in SubfoldersOf(last.before, Src) :
          isdir(fs, d) /\ UserFilesIn(last.before, d) \subseteq UserFilesIn(fs, d)
    /\ IF exists(fs, Src)
       THEN isdir(fs, Src) /\ listdir(fs, Src) # {} /\ ~last.removed
       ELSE last.removed /\ listdir(last.before, Src) \subseteq MovedFrom
C2_MergeSafetyClaimed ==
    (IsMerge /\ isdir(last.before, Src)) =>
        /\ \A d \in {q \in SubfoldersOf(last.before, last.dst) : ~IsPrefix(Src, q)} :
              isdir(fs, d) /\ UserFilesIn(fs, d) = UserFilesIn(last.before, d)
        /\ SourceKept

\* C2 (amended): as claimed, but (a) holds of every directory other than the
\* source and the classified directories root/category/EXTENSION_UPPER of the
\* source's immediate files, where the merge puts them.
ClassifiedDirs ==
    {ClassifiedDir(file_instance(last.before, last.self0, last.files[i]),
                   last.root, TRUE) : i \in 1..Len(last.files)}
C2_MergeSafety ==
    (IsMerge /\ isdir(last.before, Src)) =>
        /\ \A d \in {q \in DOMAIN last.before : isdir(last.before, q)}
                    \ ({Src} \cup ClassifiedDirs) :
              isdir(fs, d) /\ UserFilesIn(fs, d) = UserFilesIn(last.before, d)
        /\ SourceKept
\* a merge into a dst that held a subfolder, which moved a file and removed
\* the emptied source
C2_Witness ==
    /\ IsMerge /\ isdir(last.before, Src)
    /\ SubfoldersOf(last.before, last.dst) # {}
    /\ MovedFrom # {} /\ last.removed

\* C3 (as claimed): move_to on a File already in its classified directory
\* changes nothing, hence two calls in a row with the same root and group
\* flag move the file at most once.
InPlace ==
    /\ IsMoveTo /\ last.self0.cls = "File"
    /\ last.self0.parent = ClassifiedDir(last.self0, last.root, last.group)
NothingMoved ==
    /\ last.moves = <<>> /\ last.raised = "none"
    /\ fs = last.before
    /\ entry.path = last.self0.path
C3_FileIdempotenceClaimed ==
    /\ InPlace => NothingMoved
    /\ TwiceInARow("File", "move_to") => First.moved + Second.moved <= 1

\* C3 (amended): the same, the second part for a first call that did not
\* rename the file to the digest of its name (which has no extension, so that
\* the file is classified anew).
C3_FileIdempotence ==
    /\ InPlace => NothingMoved
    /\ (TwiceInARow("File", "move_to") /\ ~First.fallback) =>
           First.moved + Second.moved <= 1
\* the second of two calls, the first of which moved the file
C3_Witness ==
    /\ InPlace /\ TwiceInARow("File", "move_to")
    /\ First.moved = 1 /\ ~First.fallback /\ Second.moved = 0

\* C4 (as claimed): a second group(root) through the same Folder, after a first
\* that was run on an existing folder and returned, moves, renames and removes
\* nothing (the operating system refusing nothing).
C4_FolderIdempotence ==
    (TwiceInARow("Folder", "group") /\ First.raised = "none" /\ First.existed
        /\ Refused = {}) =>
        (fs = last.before /\ last.moves = <<>>)

\* C5 (as claimed): find_suitable_name answers the candidate's name when
\* nothing exists at the candidate path, and 'stem - dup (k).ext' when the
\* candidate and its duplicates 1..k-1 exist and the k-th does not, for every
\* k below the recursion limit and every candidate.
DupPath(c, k) == IF k = 0 THEN <<R, c>> ELSE <<R, DupName(c, k)>>
Numbered(c) ==
    /\ ~exists(fs, <<R, c>>) => last.result = c
    /\ \A k \in 1..(RecursionLimit - 1) :
          ((\A j \in 0..(k - 1) : exists(fs, DupPath(c, j))) /\ ~exists(fs, DupPath(c, k)))
              => last.result = DupName(c, k)
MarkerIn(f, d) == join(d, <<SORTER_IGNORE_FILENAME>>)
C6_MarkerClaimed ==
    (IsGroup /\ last.self0.cls = "CustomFolder" /\ last.raised = "none") =>
        /\ last.branch = "merge" => isfile(fs, MarkerIn(fs, last.dst))
        /\ last.branch = "rename" => ~exists(fs, MarkerIn(fs, last.dst))

\* C6 (amended): after the move of the whole folder the destination holds a
\* marker exactly if the source folder held one: the move writes none.
C6_Marker ==
    (IsGroup /\ last.self0.cls = "CustomFolder" /\ last.raised = "none") =>
        /\ last.branch = "merge" =>
              /\ isfile(fs, MarkerIn(fs, last.dst))
              /\ has_signore_file(last.before, last.dst) =>
                    fs[MarkerIn(fs, last.dst)] = last.before[MarkerIn(fs, last.dst)]
        /\ last.branch = "rename" =>
              (exists(fs, MarkerIn(fs, last.dst)) <=> exists(last.before, MarkerIn(fs, Src)))
\* a second merge into the destination, which finds the first one's marker
C6_Witness ==
    /\ IsMerge /\ last.self0.cls = "CustomFolder"
    /\ Src # last.dst
    /\ has_signore_file(last.before, last.dst)
    /\ MovedFrom # {}

\* C7 (as claimed): move_to(root, group) of a File makes the directories of
\* root/category/EXTENSION_UPPER (root/EXTENSION_UPPER) and, when no entry of
\* the file's name is there, ends with the file there under its name and the
\* entry's path that location -- for every root (the operating system not
\* refusing the move).
Arrives(d) ==
    /\ isdir(fs, d)
    /\ ~exists(last.before, join(d, <<last.self0.name>>)) =>
          /\ isfile(fs, join(d, <<last.self0.name>>))
          /\ fs[join(d, <<last.self0.name>>)] = last.before[Src]
          /\ Src # join(d, <<last.self0.name>>) => ~exists(fs, Src)
          /\ entry.path = join(d, <<last.self0.name>>)
          /\ entry.exists
C7_DestinationClaimed ==
    (IsMoveTo /\ last.self0.cls = "File" /\ Refused = {}) =>
        Arrives(ClassifiedDir(last.self0, last.root, last.group))

\* C7 (amended): the same for every root that exists as a directory; only the
\* category and the extension directory are made.
C7_Destination ==
    (IsMoveTo /\ last.self0.cls = "File" /\ Refused = {}
        /\ isdir(last.before, last.root) /\ last.raised = "none") =>
        Arrives(ClassifiedDir(last.self0, last.root, last.group))
\* a file moved to root/category/EXT, both directories made by the call
C7_Witness ==
    /\ IsMoveTo /\ last.self0.cls = "File" /\ last.group /\ last.raised = "none"
    /\ ~isdir(last.before, join(last.root, <<last.self0.category>>))
    /\ MovedFrom = {Src}
    /\ entry.path = join(ClassifiedDir(last.self0, last.root, TRUE), <<last.self0.name>>)

\* C8 (as claimed): for_sorter is true exactly when the path is a directory
\* whose name, upper-cased, is an extension of typeList or 'FOLDERS', or whose
\* name is a category of typeGroups.
IsFolderEntry == entry.cls \in {"Folder", "CustomFolder"}
C9_Relocation ==
    (IsGroup /\ last.self0.cls = "Folder" /\ last.raised = "none"
        /\ isdir(last.before, Src)) =>
        /\ entry.path = last.dst
        /\ last.branch = "rename" =>
              /\ ~exists(fs, Src)
              /\ \A q \in listdir(last.before, Src) :
                    exists(fs, join(last.dst, <<basename(q)>>))

\* C10: a move refused by the operating system is caught by move_to: the file
\* is still at its source and the entry is as it was; and a merge in which a
\* file's move is refused goes on to every other file and returns.
Untouched(self0, self1) == [self1 EXCEPT !.calls = <<>>] = [self0 EXCEPT !.calls = <<>>]
C10_PermissionFailure ==
    /\ (IsMoveTo /\ Refused # {}) =>
          /\ last.raised = "none"
          /\ Untouched(last.self0, entry)
          /\ isfile(fs, Src) /\ fs[Src] = last.before[Src]
    /\ (IsGroup /\ last.branch = "merge" /\ Refused # {}) =>
          /\ last.raised = "none"
          /\ \A m \in Refused : isfile(fs, m.src) /\ fs[m.src] = last.before[m.src]
          /\ \A i \in 1..Len(last.files) :
                \/ \E m \in Attempts : m.src = last.files[i]
                \/ dirname(last.files[i]) =
                      ClassifiedDir(file_instance(last.before, last.self0, last.files[i]),
                                    last.root, TRUE)
\* a merge of two files: the first one's move refused, the second moved
C10_Witness ==
    /\ IsGroup /\ last.branch = "merge" /\ Len(last.files) = 2 /\ Len(last.moves) = 2
    /\ last.moves[1].outcome = "denied" /\ last.moves[2].outcome = "moved"
    /\ last.moves[1].src = last.files[1]

====
